---- MODULE Spec2Model ----
(***************************************************************************)
(* A model of the EDGAR mirror / index builder.  The repository holds      *)
(* three near-duplicate variants of the same program:                      *)
(*   "edgarl"   src/edgarl/__init__.py    EDGAR, process-pool scan         *)
(*   "egdarl"   src/egdarl/__init__.py    EDGAR, sequential scan           *)
(*   "edgar_db" src/edgar_db/__init__.py  DB, sequential scan of the facts *)
(* The variable `variant` fixes which one a behaviour runs.                *)
(*                                                                         *)
(* Python values: a dict is a function from keys to values, a str is a     *)
(* string, a timestamp (datetime.now().isoformat()) is a natural number.   *)
(* A dict key that is not a str is written as a string of the form         *)
(* "int(7)"; json.dumps turns it into the str "7" (JsonKey).               *)
(***************************************************************************)
EXTENDS Integers, Sequences, FiniteSets, TLC

\* ------------------------------------------------------------- bounds
\* Largest number of entries of a published archive.
MaxFiles == 3
\* Largest explicit worker count passed to build(n), besides the default.
MaxWorkers == 2
\* Number of build() calls in one behaviour.
MaxBuilds == 2

\* ------------------------------------------------- program constants
\* build(self, n=8)
DefaultWorkers == 8
\* '0' * (10 - len(cik)) + cik
Width == 10

Variants == {"edgarl", "egdarl", "edgar_db"}

\* ------------------------------------------------------ input data
\* What upstream can publish: the entries of an archive, in the order
\* os.listdir returns them after extraction.  An entry is a file name and
\* what reading it gives: dotjson is ('.json' in file_name), isdir says the
\* entry is a directory (open() raises), parses says json.load succeeds,
\* has is the set of fields the parsed record holds; `name` stands for the
\* display-name field of the dataset ('name' in submissions, 'entityName'
\* in company facts).
Catalog ==
  << [file |-> "README.txt", dotjson |-> FALSE, isdir |-> FALSE,
      parses |-> FALSE, has |-> {}, cik |-> "", name |-> "", tickers |-> <<>>],
     [file |-> "CIK0000000002.json", dotjson |-> TRUE, isdir |-> FALSE,
      parses |-> FALSE, has |-> {}, cik |-> "", name |-> "", tickers |-> <<>>],
     [file |-> "CIK0001018724.json", dotjson |-> TRUE, isdir |-> FALSE,
      parses |-> TRUE, has |-> {"cik", "name", "tickers"}, cik |-> "1018724",
      name |-> "Amazon.com Inc.", tickers |-> <<"AMZN", "AMZN.B">>],
     [file |-> "CIK0000320193.json", dotjson |-> TRUE, isdir |-> FALSE,
      parses |-> TRUE, has |-> {"cik", "name", "tickers"}, cik |-> "320193",
      name |-> "Apple Inc.", tickers |-> <<"AAPL">>],
     [file |-> "CIK0000000005.json", dotjson |-> TRUE, isdir |-> FALSE,
      parses |-> TRUE, has |-> {"cik", "name", "tickers"}, cik |-> "5",
      name |-> "Apple Inc.", tickers |-> <<"AAPL">>],
     [file |-> "CIK0000000006.json", dotjson |-> TRUE, isdir |-> TRUE,
      parses |-> FALSE, has |-> {}, cik |-> "", name |-> "", tickers |-> <<>>],
     [file |-> "CIK0000000077.json", dotjson |-> TRUE, isdir |-> FALSE,
      parses |-> TRUE, has |-> {"cik", "name"}, cik |-> "77",
      name |-> "No Tickers LLC", tickers |-> <<>>],
     [file |-> "CIK12345678901.json", dotjson |-> TRUE, isdir |-> FALSE,
      parses |-> TRUE, has |-> {"cik", "name", "tickers"}, cik |-> "12345678901",
      name |-> "Long Id Corp", tickers |-> <<"LONG">>],
     [file |-> "CIK0000000042.json", dotjson |-> TRUE, isdir |-> FALSE,
      parses |-> TRUE, has |-> {"cik", "name", "tickers"}, cik |-> "42",
      name |-> "int(7)", tickers |-> <<>>],
     [file |-> "CIK0000000088.json", dotjson |-> TRUE, isdir |-> FALSE,
      parses |-> TRUE, has |-> {"cik", "tickers"}, cik |-> "88",
      name |-> "", tickers |-> <<"NNM">>] >>

\* An archive is a run of the catalogue: entries lo .. lo+len-1.
Windows ==
  {w \in [lo : 1..Len(Catalog), len : 0..MaxFiles] : w.lo + w.len - 1 <= Len(Catalog)}

Entries(w) == [i \in 1..w.len |-> w.lo + i - 1]

\* The index files an earlier run over older data left behind.
PriorTicker == [k \in {"AAPL", "OLD"} |-> IF k = "AAPL" THEN "0000000009" ELSE "0000000008"]
PriorCompany == [k \in {"Apple Inc.", "Old Corp"} |->
                   IF k = "Apple Inc." THEN "0000000009" ELSE "0000000008"]

EmptyMap == [k \in {} |-> ""]

\* ------------------------------------------------------------- state
VARIABLES
  variant,            \* which source variant runs
  remote,             \* the archive both URLs currently serve (a window)
  \* the root directory
  ticker_json,        \* ticker.json:  [present, map]
  company_json,       \* company.json: [present, map]
  summary_json,       \* summary.json: [present, build_timestamp]
  summaries,          \* summaries/: the timestamps t of its summary_<t>.json
  company_zip,        \* company_facts.zip: [present, complete, lo, len]
  submission_zip,     \* submissions.zip
  company_facts_dir,  \* company_facts/: catalogue indices, in listing order
  submissions_dir,    \* submissions/
  \* the store object
  ticker_cik_map,
  company_cik_map,
  \* the running build() call
  pc,                 \* "idle" or the step build() is at
  n,                  \* its worker count
  now,                \* datetime.now() at its start
  file_names,         \* the enumerated record files
  futures,            \* the submitted chunks
  done,               \* futures in the order they completed
  merged,             \* how many of them the coordinator has merged
  \* history
  outcome,            \* how the last build() ended: [status, step, error]
  pre,                \* the root directory when the last build() started
  mem0,               \* the store's maps when the last build() started
  extracted,          \* the datasets whose extraction step has run
  hist,               \* the start timestamps of the successful builds
  builds,             \* build() calls so far
  lookup,             \* the get_data()/get() call just made: [called, args, cik, found]
  padded              \* the cik fields padded so far: cik field -> identifier

disk == <<ticker_json, company_json, summary_json, summaries, company_zip,
          submission_zip, company_facts_dir, submissions_dir>>
store == <<ticker_cik_map, company_cik_map>>
locals == <<n, now, file_names, futures, done, merged>>
ghost == <<outcome, pre, mem0, extracted, hist, builds>>
vars == <<variant, remote, disk, store, pc, locals, ghost, lookup, padded>>

\* ------------------------------------------------------ dict helpers
\* Mutant of Update: the partial result replaces the store's map.
UpdateAssign(m, u) == u

\* Mutant of Update: a key the map already holds keeps its value.
UpdateKeepOld(m, u) ==
  [k \in DOMAIN m \cup DOMAIN u |-> IF k \in DOMAIN m THEN m[k] ELSE u[k]]

\* dict.update(u): last writer wins.
Update(m, u) ==
  [k \in DOMAIN m \cup DOMAIN u |-> IF k \in DOMAIN u THEN u[k] ELSE m[k]]

\* m[key] = value
Put(m, key, value) == [k \in DOMAIN m \cup {key} |-> IF k = key THEN value ELSE m[k]]

Range(s) == {s[i] : i \in DOMAIN s}

\* json.dumps coerces a key that is not a str to its str form.
JsonKey(k) == IF k = "int(7)" THEN "7" ELSE k

\* json.dumps(m, indent=4) as json.load reads it back: a str-keyed mapping.
JsonDumps(m) ==
  [k \in {JsonKey(x) : x \in DOMAIN m} |-> m[CHOOSE x \in DOMAIN m : JsonKey(x) = k]]

\* Mutant of LoadIndex: the store always starts empty.
LoadEmpty(f) == EmptyMap

\* json.load(open(path)) if os.path.isfile(path) else {}
LoadIndex(f) == IF f.present THEN f.map ELSE EmptyMap

\* None, and every other falsy str.
Nil == ""
NoArgs == [cik |-> Nil, ticker |-> Nil, company_name |-> Nil]
NoLookup ==
  [called |-> FALSE, args |-> NoArgs, cik |-> Nil, found |-> FALSE, result |-> "none"]

NoFile == [present |-> FALSE, map |-> EmptyMap]
NoSummary == [present |-> FALSE, build_timestamp |-> 0]
NoZip == [present |-> FALSE, complete |-> FALSE, lo |-> 1, len |-> 0]

\* The path EDGAR.__init__ gives each index.
TickerPath(v) == "ticker.json"
CompanyPath(v) == IF v = "egdarl" THEN "ticker.json" ELSE "company.json"

ReadIndex(path, tj, cj) == LoadIndex(IF path = "ticker.json" THEN tj ELSE cj)

\* ------------------------------------------------------------- Init
\* The store object right after construction on the root, before any call.
Fresh ==
  /\ ticker_cik_map = ReadIndex(TickerPath(variant), ticker_json, company_json)
  /\ company_cik_map = ReadIndex(CompanyPath(variant), ticker_json, company_json)
  /\ pc = "idle"
  /\ n = DefaultWorkers
  /\ now = 0
  /\ file_names = <<>>
  /\ futures = <<>>
  /\ done = <<>>
  /\ merged = 0
  /\ outcome = [status |-> "none", step |-> "none", error |-> "none"]
  /\ pre = [ticker_json |-> ticker_json, company_json |-> company_json,
            summary_json |-> summary_json, summaries |-> summaries,
            company_zip |-> company_zip, submission_zip |-> submission_zip]
  /\ mem0 = [t |-> ticker_cik_map, c |-> company_cik_map]
  /\ extracted = {}
  /\ builds = 0
  /\ lookup = NoLookup
  /\ padded = EmptyMap

\* The root is empty, or it is what an earlier run over older data left
\* (index files, summary and archives) and whose extracted directories
\* were emptied since; the store has just been constructed on it.
Init ==
  /\ variant \in Variants
  /\ remote \in Windows
  /\ \E prior \in BOOLEAN :
       /\ ticker_json = IF prior THEN [present |-> TRUE, map |-> PriorTicker] ELSE NoFile
       /\ company_json = IF prior THEN [present |-> TRUE, map |-> PriorCompany] ELSE NoFile
       /\ summary_json = IF prior THEN [present |-> TRUE, build_timestamp |-> 0] ELSE NoSummary
       /\ company_zip = IF prior THEN [present |-> TRUE, complete |-> TRUE, lo |-> 1, len |-> 0]
                                 ELSE NoZip
       /\ submission_zip = company_zip
       /\ hist = IF prior THEN <<0>> ELSE <<>>
  /\ summaries = {}
  /\ company_facts_dir = <<>>
  /\ submissions_dir = <<>>
  /\ Fresh

\* EDGAR.__init__ / DB.__init__ on the same root: a new store object.
Construct ==
  /\ pc = "idle"
  /\ ticker_cik_map' = ReadIndex(TickerPath(variant), ticker_json, company_json)
  /\ company_cik_map' = ReadIndex(CompanyPath(variant), ticker_json, company_json)
  /\ lookup' = NoLookup
  /\ UNCHANGED <<variant, padded, remote, disk, pc, locals, ghost>>

\* ------------------------------------------------------- build()
Workers == (1..MaxWorkers) \cup {DefaultWorkers}

Snapshot ==
  [ticker_json |-> ticker_json, company_json |-> company_json,
   summary_json |-> summary_json, summaries |-> summaries,
   company_zip |-> company_zip, submission_zip |-> submission_zip]

\* build() is over: its local variables are gone.
Return ==
  /\ pc' = "idle"
  /\ n' = DefaultWorkers
  /\ now' = 0
  /\ file_names' = <<>>
  /\ futures' = <<>>
  /\ done' = <<>>
  /\ merged' = 0

\* An exception leaves build(): the call is over, nothing is cleaned up.
Raise(step, error) ==
  /\ Return
  /\ outcome' = [status |-> "failed", step |-> step, error |-> error]

\* Mutant of RotateSummary: the archive is named with the new build's
\* timestamp instead of the one recorded in the old summary.
RotateByNow ==
  IF summary_json.present
    THEN /\ summaries' = summaries \cup {now'}
         /\ summary_json' = NoSummary
    ELSE UNCHANGED <<summary_json, summaries>>

\* os.rename(summary_path, summaries/summary_<build_timestamp>.json)
RotateSummary ==
  IF summary_json.present
    THEN /\ summaries' = summaries \cup {summary_json.build_timestamp}
         /\ summary_json' = NoSummary
    ELSE UNCHANGED <<summary_json, summaries>>

\* build() up to the first process_zip: now = datetime.now(), then the
\* rotation of the previous summary (EDGAR only; DB.build has none).  The
\* clock is the local wall clock: it never reads less than before here, and
\* it may read the same instant for two builds (a clock set back).
BuildStart ==
  /\ pc = "idle"
  /\ builds < MaxBuilds
  /\ now' \in {builds, builds + 1}
  /\ IF variant = "edgarl" THEN n' \in Workers ELSE n' = n
  /\ IF variant = "edgar_db" THEN UNCHANGED <<summary_json, summaries>> ELSE RotateSummary
  /\ pc' = "facts"
  /\ outcome' = [status |-> "running", step |-> "start", error |-> "none"]
  /\ pre' = Snapshot
  /\ mem0' = [t |-> ticker_cik_map, c |-> company_cik_map]
  /\ builds' = builds + 1
  /\ lookup' = NoLookup
  /\ UNCHANGED <<file_names, futures, done, merged>>
  /\ UNCHANGED <<variant, padded, remote, ticker_json, company_json, company_zip,
                 submission_zip, company_facts_dir, submissions_dir, store, extracted, hist>>

\* Largest number of entries of a directory extracted by an earlier run.
MaxListed == 5
\* Number of cik fields padded in one behaviour.
MaxPadded == 3

\* Mutant of Extract: the emptiness test is missing.
ExtractAlways(dir, archive) == Entries(archive)

\* The extraction step: if len(os.listdir(folder_path)) <= 0: extractall.
Extract(dir, archive) == IF Len(dir) <= 0 THEN Entries(archive) ELSE dir

\* What open(zip_path, 'wb+') followed by an interrupted copy leaves.
Truncated(archive) ==
  [present |-> TRUE, complete |-> FALSE, lo |-> archive.lo, len |-> archive.len]

Downloaded(archive) ==
  [present |-> TRUE, complete |-> TRUE, lo |-> archive.lo, len |-> archive.len]

\* process_zip(url, zip_path, folder_path), with the response upstream
\* gives: a failing status, a body whose transfer breaks, or a whole body
\* that declares its Content-Length or not.
process_zip(zip, zipNext, dir, dirNext, step, after) ==
  \/ \* response.raise_for_status() raises
     /\ zipNext = zip
     /\ dirNext = dir
     /\ UNCHANGED extracted
     /\ Raise(step, "HTTPError")
  \/ \* response.iter_content(...) raises after the file was opened 'wb+'
     /\ zipNext = Truncated(remote)
     /\ dirNext = dir
     /\ UNCHANGED extracted
     /\ Raise(step, "ConnectionError")
  \/ \E declared \in BOOLEAN :
       IF variant = "edgar_db" /\ ~declared
         THEN \* response.headers['Content-Length'] raises, file opened 'wb+'
              /\ zipNext = Truncated([lo |-> 1, len |-> 0])
              /\ dirNext = dir
              /\ UNCHANGED extracted
              /\ Raise(step, "KeyError")
         ELSE /\ zipNext = Downloaded(remote)
              /\ dirNext = Extract(dir, remote)
              /\ extracted' = extracted \cup {step}
              /\ pc' = after
              /\ outcome' = [outcome EXCEPT !.step = step]
              /\ UNCHANGED locals

\* Mutant of ScanStep: the index files are written right after the fetches.
SkipScan == "write_ticker"

\* The step after the two fetches: the pool scan, or the sequential one.
ScanStep == IF variant = "edgarl" THEN "partition" ELSE "scan_all"

ProcessCompanyFacts ==
  /\ pc = "facts"
  /\ process_zip(company_zip, company_zip', company_facts_dir, company_facts_dir',
                 "facts", "subs")
  /\ UNCHANGED <<variant, padded, remote, ticker_json, company_json, summary_json, summaries,
                 submission_zip, submissions_dir, store, pre, mem0, hist,
                 builds, lookup>>

ProcessSubmissions ==
  /\ pc = "subs"
  /\ process_zip(submission_zip, submission_zip', submissions_dir, submissions_dir',
                 "subs", ScanStep)
  /\ UNCHANGED <<variant, padded, remote, ticker_json, company_json, summary_json, summaries,
                 company_zip, company_facts_dir, store, pre, mem0, hist,
                 builds, lookup>>

\* -------------------------------------------------- the index scan
RECURSIVE Zeros(_)
\* '0' * k: the empty string when k <= 0.
Zeros(k) == IF k <= 0 THEN "" ELSE "0" \o Zeros(k - 1)

\* Mutant of PadCik: the zeros are appended.
PadCikRight(cik) == cik \o Zeros(Width - Len(cik))

\* cik = '0' * (10 - len(cik)) + cik
PadCik(cik) == Zeros(Width - Len(cik)) \o cik

\* {ticker: cik for ticker in submission['tickers']}
TickerDict(e, cik) == [k \in Range(e.tickers) |-> cik]

\* The body of the try block of gather_index (and of egdarl's build) for
\* one parsed file: any exception ends it where it is, keeping what was
\* stored before.  Order: cik, name entry, ticker entries.
ScanSubmission(e, t, c) ==
  IF ~e.parses \/ "cik" \notin e.has \/ "name" \notin e.has
    THEN [t |-> t, c |-> c]
    ELSE IF "tickers" \notin e.has
      THEN [t |-> t, c |-> Put(c, e.name, PadCik(e.cik))]
      ELSE [t |-> Update(t, TickerDict(e, PadCik(e.cik))),
            c |-> Put(c, e.name, PadCik(e.cik))]

\* The body of the try block of DB.build for one file; open() is inside
\* the try.  Order: cik, ticker entries, entityName entry.
ScanFacts(e, t, c) ==
  IF e.isdir \/ ~e.parses \/ "cik" \notin e.has \/ "tickers" \notin e.has
    THEN [t |-> t, c |-> c]
    ELSE IF "name" \notin e.has
      THEN [t |-> Update(t, TickerDict(e, PadCik(e.cik))), c |-> c]
      ELSE [t |-> Update(t, TickerDict(e, PadCik(e.cik))),
            c |-> Put(c, e.name, PadCik(e.cik))]

RECURSIVE GatherFrom(_, _, _, _)
\* The for loop of gather_index from file i on; open(file_path) is outside
\* the try, so a path that cannot be opened raises out of the worker.
GatherFrom(files, i, t, c) ==
  IF i > Len(files) THEN [raised |-> FALSE, t |-> t, c |-> c]
  ELSE IF Catalog[files[i]].isdir THEN [raised |-> TRUE, t |-> t, c |-> c]
  ELSE LET r == ScanSubmission(Catalog[files[i]], t, c)
       IN GatherFrom(files, i + 1, r.t, r.c)

\* gather_index(files) -> (ticker_map, company_map), or an exception.
gather_index(files) == GatherFrom(files, 1, EmptyMap, EmptyMap)

\* file_names = [... for file_name in os.listdir(dir) if '.json' in file_name]
JsonFiles(dir) == SelectSeq(dir, LAMBDA i : Catalog[i].dotjson)

\* Mutant of Chunks: only the chunks of full size are submitted.
ChunksFullOnly(files, size) ==
  [j \in 1..(Len(files) \div size) |-> SubSeq(files, (j - 1) * size + 1, j * size)]

\* chunk_size = len(file_names) // n
ChunkSize(files, workers) == Len(files) \div workers

Min(a, b) == IF a <= b THEN a ELSE b

\* range(0, len(file_names), chunk_size), for chunk_size > 0
ChunkStarts(files, size) == {i \in 0..(Len(files) - 1) : i % size = 0}

\* [file_names[i:i + chunk_size] for i in range(0, len(file_names), chunk_size)]
Chunks(files, size) ==
  [j \in 1..Cardinality(ChunkStarts(files, size)) |->
     SubSeq(files, (j - 1) * size + 1, Min(j * size, Len(files)))]

\* Enumerate the record files, cut them into chunks and submit one task
\* per chunk; range() raises ValueError when chunk_size is 0.
Partition ==
  /\ pc = "partition"
  /\ LET files == JsonFiles(submissions_dir)
     IN IF ChunkSize(files, n) = 0
          THEN Raise("partition", "ValueError")
          ELSE /\ file_names' = files
               /\ futures' = Chunks(files, ChunkSize(files, n))
               /\ pc' = "scan"
               /\ outcome' = [outcome EXCEPT !.step = "partition"]
               /\ UNCHANGED <<n, now, done, merged>>
  /\ UNCHANGED <<variant, padded, remote, disk, store, pre, mem0, extracted, hist, builds, lookup>>

\* A worker finishes its chunk (with a result or an exception).
WorkerComplete ==
  /\ pc = "scan"
  /\ \E i \in 1..Len(futures) :
       /\ i \notin Range(done)
       /\ done' = Append(done, i)
  /\ UNCHANGED <<variant, padded, remote, disk, store, pc, n, now, file_names, futures,
                 merged, ghost, lookup>>

\* One turn of `for future in as_completed(futures)`: future.result()
\* re-raises the worker's exception, else both maps are updated.  After
\* the last future the loop and the pool's with block end.
MergeNext ==
  /\ pc = "scan"
  /\ merged < Len(done)
  /\ LET r == gather_index(futures[done[merged + 1]])
     IN IF r.raised
          THEN /\ Raise("scan", "OSError")
               /\ UNCHANGED store
          ELSE /\ ticker_cik_map' = Update(ticker_cik_map, r.t)
               /\ company_cik_map' = Update(company_cik_map, r.c)
               /\ merged' = merged + 1
               /\ pc' = IF merged + 1 = Len(futures) THEN "write_ticker" ELSE "scan"
               /\ outcome' = [outcome EXCEPT !.step = "scan"]
               /\ UNCHANGED <<n, now, file_names, futures, done>>
  /\ UNCHANGED <<variant, padded, remote, disk, pre, mem0, extracted, hist, builds, lookup>>

\* The names of the files present in the root directory itself.
RootFiles ==
  (IF ticker_json.present THEN {"ticker.json"} ELSE {})
    \cup (IF company_json.present THEN {"company.json"} ELSE {})
    \cup (IF summary_json.present THEN {"summary.json"} ELSE {})
    \cup (IF company_zip.present THEN {"company_facts.zip"} ELSE {})
    \cup (IF submission_zip.present THEN {"submissions.zip"} ELSE {})

RECURSIVE ScanRootFrom(_, _, _, _)
\* egdarl's loop: every '.json' name of submissions/ is opened under the
\* root directory, os.path.join(self.dir, file_name), outside the try.  A
\* name missing there raises; a root file of that name is no record.
ScanRootFrom(files, i, t, c) ==
  IF i > Len(files) THEN [raised |-> FALSE, t |-> t, c |-> c]
  ELSE IF Catalog[files[i]].file \notin RootFiles THEN [raised |-> TRUE, t |-> t, c |-> c]
  ELSE ScanRootFrom(files, i + 1, t, c)

RECURSIVE ScanFactsFrom(_, _, _, _)
\* DB.build's loop over os.listdir(company_facts_dir): never raises.
ScanFactsFrom(files, i, t, c) ==
  IF i > Len(files) THEN [raised |-> FALSE, t |-> t, c |-> c]
  ELSE LET r == ScanFacts(Catalog[files[i]], t, c)
       IN ScanFactsFrom(files, i + 1, r.t, r.c)

\* The sequential scan of egdarl's EDGAR.build and of DB.build.
ScanAll ==
  /\ pc = "scan_all"
  /\ LET files == IF variant = "egdarl" THEN JsonFiles(submissions_dir)
                                         ELSE company_facts_dir
         r == IF variant = "egdarl"
                THEN ScanRootFrom(files, 1, ticker_cik_map, company_cik_map)
                ELSE ScanFactsFrom(files, 1, ticker_cik_map, company_cik_map)
     IN /\ ticker_cik_map' = r.t
        /\ company_cik_map' = r.c
        /\ IF r.raised
             THEN Raise("scan", "FileNotFoundError")
             ELSE /\ file_names' = files
                  /\ pc' = "write_ticker"
                  /\ outcome' = [outcome EXCEPT !.step = "scan"]
                  /\ UNCHANGED <<n, now, futures, done, merged>>
  /\ UNCHANGED <<variant, padded, remote, disk, pre, mem0, extracted, hist, builds, lookup>>

\* ------------------------------------------------------ persistence
WriteIndex(path, m, file) ==
  IF path = file THEN [present |-> TRUE, map |-> JsonDumps(m)]
  ELSE IF file = "ticker.json" THEN ticker_json ELSE company_json

\* open(ticker path, 'w+').write(json.dumps(ticker map, indent=4))
WriteTicker ==
  /\ pc = "write_ticker"
  /\ ticker_json' = WriteIndex(TickerPath(variant), ticker_cik_map, "ticker.json")
  /\ company_json' = WriteIndex(TickerPath(variant), ticker_cik_map, "company.json")
  /\ pc' = "write_company"
  /\ outcome' = [outcome EXCEPT !.step = "write_ticker"]
  /\ UNCHANGED <<variant, padded, remote, summary_json, summaries, company_zip, submission_zip,
                 company_facts_dir, submissions_dir, store, locals, pre, mem0, extracted, hist,
                 builds, lookup>>

\* open(company path, 'w+').write(json.dumps(company map, indent=4))
WriteCompany ==
  /\ pc = "write_company"
  /\ ticker_json' = WriteIndex(CompanyPath(variant), company_cik_map, "ticker.json")
  /\ company_json' = WriteIndex(CompanyPath(variant), company_cik_map, "company.json")
  /\ pc' = "write_summary"
  /\ outcome' = [outcome EXCEPT !.step = "write_company"]
  /\ UNCHANGED <<variant, padded, remote, summary_json, summaries, company_zip, submission_zip,
                 company_facts_dir, submissions_dir, store, locals, pre, mem0, extracted, hist,
                 builds, lookup>>

\* The new summary is written with the start timestamp; build() returns.
WriteSummary ==
  /\ pc = "write_summary"
  /\ summary_json' = [present |-> TRUE, build_timestamp |-> now]
  /\ Return
  /\ outcome' = [status |-> "ok", step |-> "write_summary", error |-> "none"]
  /\ hist' = Append(hist, now)
  /\ UNCHANGED <<variant, padded, remote, ticker_json, company_json, summaries, company_zip,
                 submission_zip, company_facts_dir, submissions_dir, store,
                 pre, mem0, extracted, builds, lookup>>

\* ---------------------------------------------------------- accessor
\* The arguments a caller passes.
CikArgs == {Nil, "320193", "0000320193", "0000000002"}
TickerArgs == {Nil, "AAPL"}
NameArgs == {Nil, "No Tickers LLC"}
IdArgs == {Nil, "AAPL", "Apple Inc.", "320193", "0000320193", "0000000002"}

\* Mutant of lookup_cik: the name is checked before the ticker.
lookup_cik_NameFirst(ticker, company_name) ==
  IF company_name # Nil /\ company_name \in DOMAIN company_cik_map
    THEN company_cik_map[company_name]
    ELSE IF ticker # Nil /\ ticker \in DOMAIN ticker_cik_map THEN ticker_cik_map[ticker]
    ELSE Nil

\* EDGAR.lookup_cik(ticker, company_name); None when neither is indexed.
lookup_cik(ticker, company_name) ==
  IF ticker # Nil /\ ticker \in DOMAIN ticker_cik_map THEN ticker_cik_map[ticker]
  ELSE IF company_name # Nil /\ company_name \in DOMAIN company_cik_map
    THEN company_cik_map[company_name]
    ELSE Nil

\* os.path.isfile(os.path.join(company_facts, f'CIK{cik}.json'))
FactsFile(cik) ==
  \E i \in Range(company_facts_dir) :
    Catalog[i].file = "CIK" \o cik \o ".json" /\ ~Catalog[i].isdir

\* json.load(open(facts_path)) succeeds on the facts file of cik.
FactsParse(cik) ==
  \E i \in Range(company_facts_dir) :
    Catalog[i].file = "CIK" \o cik \o ".json" /\ Catalog[i].parses

\* How the call ends once the identifier is known: ValueError('No valid
\* cik, ticker, or company name supplied'), the exception of json.load, or
\* the CompanyFacts of the file.
GetResult(cik) ==
  IF cik = Nil \/ ~FactsFile(cik) THEN "ValueError"
  ELSE IF ~FactsParse(cik) THEN "JSONDecodeError"
  ELSE "CompanyFacts"

\* The identifier get_data looks the facts file up with.
ResolveCik(cik, ticker, company_name) ==
  IF cik = Nil THEN lookup_cik(ticker, company_name) ELSE cik

\* EDGAR.get_data(cik, ticker, company_name).
GetData ==
  /\ pc = "idle"
  /\ variant = "edgarl"
  /\ ~lookup.called
  /\ \E cik \in CikArgs, ticker \in TickerArgs, company_name \in NameArgs :
       LET id == ResolveCik(cik, ticker, company_name)
       IN lookup' = [called |-> TRUE,
                     args |-> [cik |-> cik, ticker |-> ticker, company_name |-> company_name],
                     cik |-> id,
                     found |-> id # Nil /\ FactsFile(id),
                     result |-> GetResult(id)]
  /\ UNCHANGED <<variant, padded, remote, disk, store, pc, locals, ghost>>

\* dict.get(key): None when the key is absent.
DictGet(m, key) == IF key \in DOMAIN m THEN m[key] ELSE Nil

\* a or b
Or(a, b) == IF a # Nil THEN a ELSE b

\* cik = ticker_index.get(id) or company_name_index.get(id) or id
ResolveId(unique_id) ==
  Or(DictGet(ticker_cik_map, unique_id), Or(DictGet(company_cik_map, unique_id), unique_id))

\* DB.get(unique_id).
Get ==
  /\ pc = "idle"
  /\ variant = "edgar_db"
  /\ ~lookup.called
  /\ \E unique_id \in IdArgs :
       LET id == ResolveId(unique_id)
       IN lookup' = [called |-> TRUE,
                     args |-> [cik |-> unique_id, ticker |-> Nil, company_name |-> Nil],
                     cik |-> id,
                     found |-> id # Nil /\ FactsFile(id),
                     result |-> GetResult(id)]
  /\ UNCHANGED <<variant, padded, remote, disk, store, pc, locals, ghost>>

\* ---------------------------------------------------------- upstream
\* Upstream publishes one more entity: both archives grow by an entry.
Publish ==
  /\ pc = "idle"
  /\ remote.len < MaxFiles
  /\ remote.lo + remote.len <= Len(Catalog)
  /\ remote' = [remote EXCEPT !.len = remote.len + 1]
  /\ lookup' = NoLookup
  /\ UNCHANGED <<variant, padded, disk, store, pc, locals, ghost>>

Next ==
  \/ Construct
  \/ BuildStart
  \/ ProcessCompanyFacts
  \/ ProcessSubmissions
  \/ Partition
  \/ WorkerComplete
  \/ MergeNext
  \/ ScanAll
  \/ WriteTicker
  \/ WriteCompany
  \/ WriteSummary
  \/ GetData
  \/ Get
  \/ Publish

Spec == Init /\ [][Next]_vars

\* ----------------------------------------------- the partition alone
\* Builds of edgarl on a root whose directories an earlier build(n=8)
\* already extracted from the archive upstream still serves, before it
\* failed at the partition: the listings are longer than a worker count.
Listings ==
  {w \in [lo : 1..Len(Catalog), len : 0..MaxListed] : w.lo + w.len - 1 <= Len(Catalog)}

PartitionInit ==
  /\ variant = "edgarl"
  /\ \E w \in Listings :
       /\ remote = w
       /\ company_zip = Downloaded(w)
       /\ submission_zip = Downloaded(w)
       /\ company_facts_dir = Entries(w)
       /\ submissions_dir = Entries(w)
  /\ ticker_json = NoFile
  /\ company_json = NoFile
  /\ summary_json = NoSummary
  /\ summaries = {}
  /\ hist = <<>>
  /\ Fresh

PartitionNext ==
  \/ BuildStart
  \/ ProcessCompanyFacts
  \/ ProcessSubmissions
  \/ Partition
  \/ WorkerComplete
  \/ MergeNext
  \/ WriteTicker
  \/ WriteCompany
  \/ WriteSummary

PartitionSpec == PartitionInit /\ [][PartitionNext]_vars

\* ------------------------------------------------- the padding alone
\* The cik fields records can hold: digit strings without a leading zero,
\* and digit strings with one.
PlainCiks == {"", "5", "50", "77", "320193", "1018724", "1234567890", "12345678901"}
ZeroCiks == {"0", "05", "0000000005", "0000000050", "0000320193", "0001018724"}

\* The scan pads the cik field of one more record.
PadRecord ==
  /\ Cardinality(DOMAIN padded) < MaxPadded
  /\ \E cik \in PlainCiks \cup ZeroCiks :
       padded' = Put(padded, cik, PadCik(cik))
  /\ UNCHANGED <<variant, remote, disk, store, pc, locals, ghost, lookup>>

PadInit ==
  /\ variant = "edgarl"
  /\ remote = [lo |-> 1, len |-> 0]
  /\ ticker_json = NoFile
  /\ company_json = NoFile
  /\ summary_json = NoSummary
  /\ summaries = {}
  /\ company_zip = NoZip
  /\ submission_zip = NoZip
  /\ company_facts_dir = <<>>
  /\ submissions_dir = <<>>
  /\ hist = <<>>
  /\ Fresh

PadNext == PadRecord

PadSpec == PadInit /\ [][PadNext]_vars
\* ===================================================================
\* Claims
\* ===================================================================
\* The record files the scan of EDGAR.build enumerates.
RecordFiles == JsonFiles(submissions_dir)

\* The files the scan of the running variant reads.
ScannedFiles == IF variant = "edgar_db" THEN company_facts_dir ELSE RecordFiles

\* A record of the documented shape {cik: str, name: str, tickers: [str]}.
Valid(e) ==
  /\ ~e.isdir
  /\ e.parses
  /\ e.has = {"cik", "name", "tickers"}
  /\ JsonKey(e.name) = e.name

\* A file that is not valid JSON, or a record that lacks a needed field.
Malformed(e) == ~e.isdir /\ (~e.parses \/ e.has # {"cik", "name", "tickers"})

ValidOf(files) == {i \in Range(files) : Valid(Catalog[i])}

\* What one record file contributes on its own.
FileTickers(i) == ScanSubmission(Catalog[i], EmptyMap, EmptyMap).t
FileNames(i) == ScanSubmission(Catalog[i], EmptyMap, EmptyMap).c

TickerKeys(files) == UNION {DOMAIN FileTickers(i) : i \in Range(files)}
NameKeys(files) == UNION {DOMAIN FileNames(i) : i \in Range(files)}

\* The identifiers the files contribute for key k.
TickerIds(files, k) ==
  {FileTickers(i)[k] : i \in {j \in Range(files) : k \in DOMAIN FileTickers(j)}}
NameIds(files, k) ==
  {FileNames(i)[k] : i \in {j \in Range(files) : k \in DOMAIN FileNames(j)}}

Distinct(seq) == \A i, j \in DOMAIN seq : i # j => seq[i] # seq[j]

\* C1: if EDGAR.build fails at a fetch, an extraction, the partition or a
\* worker, ticker.json, company.json and summary.json are what they were
\* when the call started.
C1_FailedBuildLeavesFiles ==
  (/\ variant \in {"edgarl", "egdarl"}
   /\ outcome.status = "failed"
   /\ outcome.step \in {"facts", "subs", "partition", "scan"})
  => /\ ticker_json = pre.ticker_json
     /\ company_json = pre.company_json
     /\ summary_json = pre.summary_json

\* C2: from an empty store, build with the default n = 8 over a non-empty
\* set of record files, each valid or not parseable, gets past the
\* partition and persists exactly the tickers and names of the valid
\* records, each with a padded cik of a record that defines it.
C2_Files ==
  /\ RecordFiles # <<>>
  /\ \A i \in Range(RecordFiles) :
       Valid(Catalog[i]) \/ (~Catalog[i].isdir /\ ~Catalog[i].parses)

C2_DefaultBuildIndexesAll ==
  [][(/\ variant = "edgarl"
      /\ n = DefaultWorkers
      /\ mem0.t = EmptyMap
      /\ mem0.c = EmptyMap
      /\ C2_Files)
     => /\ pc = "partition" => pc' = "scan"
        /\ pc = "write_summary" =>
             /\ DOMAIN ticker_json.map = TickerKeys(RecordFiles)
             /\ DOMAIN company_json.map = NameKeys(RecordFiles)
             /\ \A k \in TickerKeys(RecordFiles) :
                  ticker_json.map[k] \in TickerIds(RecordFiles, k)
             /\ \A k \in NameKeys(RecordFiles) :
                  company_json.map[k] \in NameIds(RecordFiles, k)]_vars

\* C3: over regular files that are each valid or malformed, the scan never
\* aborts the build, and once it is over every valid record's name and
\* tickers are keys of the store's maps.
C3_Files ==
  /\ ScannedFiles # <<>>
  /\ \A i \in Range(ScannedFiles) : Valid(Catalog[i]) \/ Malformed(Catalog[i])

C3_MalformedNeverAborts ==
  C3_Files =>
    /\ outcome.status = "failed" => outcome.step \notin {"partition", "scan"}
    /\ pc = "write_ticker" =>
         \A i \in ValidOf(ScannedFiles) :
           /\ Catalog[i].name \in DOMAIN company_cik_map
           /\ Range(Catalog[i].tickers) \subseteq DOMAIN ticker_cik_map

\* C4: when every future has been merged, the key set of each map is the
\* keys the store held at the start of the build together with the keys the
\* files contribute, whatever the completion order; a key no file defines
\* keeps its value and a key the files give one identifier has that one.
C4_KeySetsOrderIndependent ==
  (variant = "edgarl" /\ pc = "write_ticker") =>
    /\ DOMAIN ticker_cik_map = DOMAIN mem0.t \cup TickerKeys(file_names)
    /\ DOMAIN company_cik_map = DOMAIN mem0.c \cup NameKeys(file_names)
    /\ \A k \in DOMAIN ticker_cik_map :
         /\ TickerIds(file_names, k) = {} => ticker_cik_map[k] = mem0.t[k]
         /\ Cardinality(TickerIds(file_names, k)) = 1 =>
              ticker_cik_map[k] \in TickerIds(file_names, k)
    /\ \A k \in DOMAIN company_cik_map :
         /\ NameIds(file_names, k) = {} => company_cik_map[k] = mem0.c[k]
         /\ Cardinality(NameIds(file_names, k)) = 1 =>
              company_cik_map[k] \in NameIds(file_names, k)

\* Two chunks completed out of submission order, with a ticker that two
\* files give different identifiers.
C4_Witness ==
  /\ variant = "edgarl"
  /\ pc = "write_ticker"
  /\ Len(done) >= 2
  /\ done[1] = 2
  /\ Cardinality(TickerIds(file_names, "AAPL")) = 2
  /\ mem0.t # EmptyMap

\* C5: after the merge, and on disk after a successful build, every key
\* a scanned record contributes holds an identifier the current scan
\* contributes for it, not the value loaded from the earlier index file.
C5_ScanValuesWin ==
  variant = "edgarl" =>
    /\ pc = "write_ticker" =>
         /\ \A k \in TickerKeys(RecordFiles) :
              k \in DOMAIN ticker_cik_map
                /\ ticker_cik_map[k] \in TickerIds(RecordFiles, k)
         /\ \A k \in NameKeys(RecordFiles) :
              k \in DOMAIN company_cik_map
                /\ company_cik_map[k] \in NameIds(RecordFiles, k)
    /\ (pc = "idle" /\ outcome.status = "ok") =>
         /\ \A k \in TickerKeys(RecordFiles) :
              JsonKey(k) \in DOMAIN ticker_json.map
                /\ ticker_json.map[JsonKey(k)] \in TickerIds(RecordFiles, k)
         /\ \A k \in NameKeys(RecordFiles) :
              JsonKey(k) \in DOMAIN company_json.map
                /\ company_json.map[JsonKey(k)] \in NameIds(RecordFiles, k)

\* A successful build over Apple's record on a root whose earlier index
\* mapped AAPL to another identifier.
C5_Witness ==
  /\ variant = "edgarl"
  /\ pc = "idle"
  /\ outcome.status = "ok"
  /\ pre.ticker_json.present
  /\ pre.ticker_json.map["AAPL"] = "0000000009"
  /\ "AAPL" \in DOMAIN ticker_json.map
  /\ ticker_json.map["AAPL"] = "0000320193"
  /\ company_json.map["Apple Inc."] = "0000320193"

\* C6: after k successful builds with distinct start timestamps,
\* summaries/ holds exactly the k-1 summaries of the earlier builds, each
\* under its own timestamp, and summary.json holds the k-th timestamp.
C6_SummaryRotation ==
  (/\ variant \in {"edgarl", "egdarl"}
   /\ pc = "idle"
   /\ outcome.status = "ok"
   /\ Distinct(hist))
  => /\ summaries = {hist[i] : i \in 1..(Len(hist) - 1)}
     /\ Cardinality(summaries) = Len(hist) - 1
     /\ summary_json = [present |-> TRUE, build_timestamp |-> hist[Len(hist)]]

\* Two successful builds on a root that was empty.
C6_Witness ==
  /\ variant = "edgarl"
  /\ pc = "idle"
  /\ outcome.status = "ok"
  /\ hist = <<1, 2>>
  /\ summaries = {1}
  /\ summary_json.build_timestamp = 2

\* The extraction step of a process_zip call that returned.
ExtractedFacts == pc = "facts" /\ pc' = "subs"
ExtractedSubs == pc = "subs" /\ pc' \in {"partition", "scan_all"}

\* Into a populated directory nothing is extracted; into an empty one,
\* every entry of the archive just downloaded.
ExtractRule(dir, dirNext, zipNext) ==
  IF Len(dir) > 0 THEN dirNext = dir ELSE dirNext = Entries(zipNext)

\* C7 as stated: the extraction rule, and a second extraction after a
\* first one changes nothing.
C7_SecondExtractionChangesNothing ==
  [][/\ ExtractedFacts =>
          /\ ExtractRule(company_facts_dir, company_facts_dir', company_zip')
          /\ "facts" \in extracted => company_facts_dir' = company_facts_dir
     /\ ExtractedSubs =>
          /\ ExtractRule(submissions_dir, submissions_dir', submission_zip')
          /\ "subs" \in extracted => submissions_dir' = submissions_dir]_vars

\* C7 amended: the extraction rule, and a second extraction after a first
\* one that left at least one entry changes nothing.
C7_ExtractOnlyIntoEmpty ==
  [][/\ ExtractedFacts =>
          /\ ExtractRule(company_facts_dir, company_facts_dir', company_zip')
          /\ ("facts" \in extracted /\ Len(company_facts_dir) > 0)
               => company_facts_dir' = company_facts_dir
     /\ ExtractedSubs =>
          /\ ExtractRule(submissions_dir, submissions_dir', submission_zip')
          /\ ("subs" \in extracted /\ Len(submissions_dir) > 0)
               => submissions_dir' = submissions_dir]_vars

\* A second process_zip has just downloaded an archive that differs from
\* what the populated company_facts/ was extracted from.
C7_Witness ==
  /\ pc = "subs"
  /\ builds = 2
  /\ "subs" \in extracted
  /\ Len(company_facts_dir) > 0
  /\ company_zip.complete
  /\ company_zip.len # Len(company_facts_dir)

\* C8: every identifier the store holds, and every identifier get_data
\* locates a facts file with, is exactly 10 characters long.
C8_IdentifiersAreTenChars ==
  /\ \A k \in DOMAIN ticker_cik_map : Len(ticker_cik_map[k]) = Width
  /\ \A k \in DOMAIN company_cik_map : Len(company_cik_map[k]) = Width
  /\ (lookup.called /\ lookup.cik # Nil) => Len(lookup.cik) = Width

\* C9: after a successful build, ticker.json reloads to the ticker map the
\* build held and company.json, a distinct file, to the name map it held.
C9_IndexRoundTrip ==
  (/\ variant \in {"edgarl", "egdarl"}
   /\ pc = "idle"
   /\ outcome.status = "ok")
  => /\ ticker_json.present
     /\ LoadIndex(ticker_json) = ticker_cik_map
     /\ company_json.present
     /\ LoadIndex(company_json) = company_cik_map

\* C10: if a fetch fails, by its status or while the body is streamed, the
\* archive files that were on disk before the build keep their content.
C10_FailedFetchKeepsArchives ==
  (outcome.status = "failed" /\ outcome.step \in {"facts", "subs"})
  => /\ pre.company_zip.present => company_zip = pre.company_zip
     /\ pre.submission_zip.present => submission_zip = pre.submission_zip

\* The value lookup_cik is to return for a ticker and a name.
C11_Expected(ticker, company_name) ==
  IF ticker \in DOMAIN ticker_cik_map THEN ticker_cik_map[ticker]
  ELSE IF company_name \in DOMAIN company_cik_map THEN company_cik_map[company_name]
  ELSE Nil

\* C11: lookup_cik(ticker, company_name), as get_data calls it when no cik
\* is given, returns the ticker map's value when the ticker is a key,
\* else the name map's value when the name is a key, else nothing; the
\* call leaves both maps as they were.
C11_TickerFirstThenName ==
  [][(/\ variant = "edgarl"
      /\ ~lookup.called
      /\ lookup'.called
      /\ lookup'.args.cik = Nil)
     => /\ lookup'.cik = C11_Expected(lookup'.args.ticker, lookup'.args.company_name)
        /\ ticker_cik_map' = ticker_cik_map
        /\ company_cik_map' = company_cik_map]_vars

\* A call with an indexed ticker and an indexed name that map to different
\* identifiers returned the ticker's.
C11_Witness ==
  /\ variant = "edgarl"
  /\ lookup.called
  /\ lookup.args.cik = Nil
  /\ lookup.args.ticker \in DOMAIN ticker_cik_map
  /\ lookup.args.company_name \in DOMAIN company_cik_map
  /\ ticker_cik_map[lookup.args.ticker] # company_cik_map[lookup.args.company_name]
  /\ lookup.cik = ticker_cik_map[lookup.args.ticker]

\* C12: get_data / get fails exactly when no identifier resolves (none
\* given and neither ticker nor name indexed) or the facts file of the
\* identifier is absent, and returns the facts in every other case; a
\* given cik is the identifier used.
C12_FailsExactlyWhenNotFound ==
  lookup.called =>
    /\ lookup.result # "CompanyFacts" <=> (lookup.cik = Nil \/ ~FactsFile(lookup.cik))
    /\ variant = "edgarl" =>
         /\ lookup.args.cik # Nil => lookup.cik = lookup.args.cik
         /\ lookup.cik = Nil <=>
              /\ lookup.args.cik = Nil
              /\ lookup.args.ticker \notin DOMAIN ticker_cik_map
              /\ lookup.args.company_name \notin DOMAIN company_cik_map

\* C13: for every file list and every n >= 1 the partition never raises
\* and submits exactly n chunks, the first n-1 of floor(L/n) files and the
\* last one holding the rest.
C13_ExactlyNChunks ==
  variant = "edgarl" =>
    /\ outcome.status = "failed" => outcome.step # "partition"
    /\ pc = "scan" =>
         /\ Len(futures) = n
         /\ \A j \in 1..(n - 1) : Len(futures[j]) = Len(file_names) \div n
         /\ Len(futures[n]) = Len(file_names) - (n - 1) * (Len(file_names) \div n)

\* C14: the store's maps are updated only once every worker has
\* completed, and a build that fails in a worker leaves them as they were
\* when it started.
C14_MergeAfterAllWorkers ==
  variant = "edgarl" =>
    /\ (pc = "scan" /\ merged > 0) => Len(done) = Len(futures)
    /\ (outcome.status = "failed" /\ outcome.step = "scan") =>
         /\ ticker_cik_map = mem0.t
         /\ company_cik_map = mem0.c

\* What the scan of the running variant stores for one file on its own.
C15_Contribution(i) ==
  IF variant = "edgar_db" THEN ScanFacts(Catalog[i], EmptyMap, EmptyMap)
  ELSE ScanSubmission(Catalog[i], EmptyMap, EmptyMap)

\* C15: once the scan is over, a scanned file that does not parse or
\* lacks cik, name or tickers has contributed nothing: every key of the
\* store's maps was there when the build started or comes from a record
\* that holds all three fields.
C15_SkippedContributesNothing ==
  (variant \in {"edgarl", "edgar_db"} /\ pc = "write_ticker") =>
    \A i \in Range(file_names) :
      Malformed(Catalog[i]) =>
        /\ DOMAIN C15_Contribution(i).t = {}
        /\ DOMAIN C15_Contribution(i).c = {}
        /\ Catalog[i].name \in DOMAIN company_cik_map =>
             \/ Catalog[i].name \in DOMAIN mem0.c
             \/ \E j \in ValidOf(file_names) : Catalog[j].name = Catalog[i].name
        /\ \A k \in Range(Catalog[i].tickers) :
             k \in DOMAIN ticker_cik_map =>
               \/ k \in DOMAIN mem0.t
               \/ \E j \in ValidOf(file_names) : k \in Range(Catalog[j].tickers)

\* The order of the steps of EDGAR.build: each step is entered from the one
\* before it, and an exception at any step ends the call.
C16_Order ==
  {<<"idle", "idle">>, <<"idle", "facts">>, <<"facts", "subs">>, <<"subs", "partition">>,
   <<"partition", "scan">>, <<"scan", "scan">>, <<"scan", "write_ticker">>,
   <<"write_ticker", "write_company">>, <<"write_company", "write_summary">>,
   <<"write_summary", "idle">>}
    \cup {<<p, "idle">> : p \in {"facts", "subs", "partition", "scan"}}

\* C16: build runs rotate, fetch+extract facts, fetch+extract submissions,
\* scan and merge, write ticker.json, write company.json, write
\* summary.json in this order, each after the previous one succeeded; no
\* index or summary file is written before every worker result is merged
\* and summary.json is written last.
C16_StepsInOrder ==
  [][variant = "edgarl" =>
       /\ <<pc, pc'>> \in C16_Order
       /\ (pc # "idle" /\ pc # "write_summary" /\ pc' = "idle") => outcome'.status = "failed"
       /\ (summaries' # summaries \/ (summary_json.present /\ ~summary_json'.present))
            => (pc = "idle" /\ pc' = "facts")
       /\ (company_zip' # company_zip \/ company_facts_dir' # company_facts_dir)
            => pc = "facts"
       /\ (submission_zip' # submission_zip \/ submissions_dir' # submissions_dir)
            => pc = "subs"
       /\ (ticker_cik_map' # ticker_cik_map \/ company_cik_map' # company_cik_map)
            => pc \in {"scan", "idle"}
       /\ ticker_json' # ticker_json
            => (pc = "write_ticker" /\ merged = Len(futures) /\ Len(done) = Len(futures))
       /\ company_json' # company_json
            => (pc = "write_company" /\ merged = Len(futures) /\ ticker_json.present)
       /\ (summary_json'.present /\ summary_json' # summary_json)
            => /\ pc = "write_summary" /\ pc' = "idle"
               /\ merged = Len(futures)
               /\ ticker_json.present /\ company_json.present
               /\ outcome'.status = "ok"]_vars

\* A second build ran to its end on a root that held the first one's
\* files: the summary was rotated and all three files were written.
C16_Witness ==
  /\ variant = "edgarl"
  /\ pc = "idle"
  /\ outcome.status = "ok"
  /\ builds = 2
  /\ pre.summary_json.present
  /\ pre.summary_json.build_timestamp \in summaries
  /\ ticker_json # pre.ticker_json
  /\ company_json # pre.company_json

\* C17: a fetch fails only by a failing status or a broken transfer; a
\* whole body fetched from a successful response is written and the fetch
\* succeeds, with or without a declared Content-Length.
C17_FetchNeedsNoContentLength ==
  (outcome.status = "failed" /\ outcome.step \in {"facts", "subs"})
  => outcome.error \in {"HTTPError", "ConnectionError"}

\* C18: on cik fields of at most 10 digits padding is idempotent (the
\* identifier of an identifier is itself), and two distinct cik fields
\* without a leading zero never get the same identifier.
C18_PadIdempotentInjective ==
  /\ \A cik \in DOMAIN padded :
       (Len(cik) <= Width /\ padded[cik] \in DOMAIN padded)
         => padded[padded[cik]] = padded[cik]
  /\ \A a, b \in DOMAIN padded \cap PlainCiks :
       (a # b /\ Len(a) <= Width /\ Len(b) <= Width) => padded[a] # padded[b]

\* A short cik field, its own identifier, and a second cik field without
\* a leading zero that extends the first were all padded.
C18_Witness ==
  /\ "5" \in DOMAIN padded
  /\ padded["5"] = "0000000005"
  /\ "0000000005" \in DOMAIN padded
  /\ "50" \in DOMAIN padded
  /\ padded["50"] = "0000000050"

RECURSIVE C19_Concat(_, _)
\* The first k chunks, one after the other.
C19_Concat(chunks, k) ==
  IF k = 0 THEN <<>> ELSE C19_Concat(chunks, k - 1) \o chunks[k]

\* C19: when the partition completes, the chunks submitted are a
\* partition of the '.json' files of submissions/: in submission order
\* they concatenate to the file list, which names each file once.
C19_ChunksPartitionFiles ==
  (variant = "edgarl" /\ pc = "scan") =>
    /\ file_names = JsonFiles(submissions_dir)
    /\ Distinct(file_names)
    /\ C19_Concat(futures, Len(futures)) = file_names
    /\ \A j \in 1..Len(futures) : futures[j] # <<>>

\* A partition whose last chunk is shorter than the others.
C19_Witness ==
  /\ variant = "edgarl"
  /\ pc = "scan"
  /\ Len(futures) >= 2
  /\ Len(futures[Len(futures)]) < Len(futures[1])

\* C20: when a build has written both index files, every key the store
\* held at its start is still a key of the store, and every key the index
\* file held at its start is still a key of the file; such a key keeps its
\* value when no scanned record defines it.
C20_KeysOnlyGrow ==
  (variant = "edgarl" /\ pc = "write_summary") =>
    /\ \A k \in DOMAIN mem0.t :
         /\ k \in DOMAIN ticker_cik_map
         /\ TickerIds(file_names, k) = {} => ticker_cik_map[k] = mem0.t[k]
    /\ \A k \in DOMAIN mem0.c :
         /\ k \in DOMAIN company_cik_map
         /\ NameIds(file_names, k) = {} => company_cik_map[k] = mem0.c[k]
    /\ \A k \in DOMAIN pre.ticker_json.map :
         /\ k \in DOMAIN ticker_json.map
         /\ TickerIds(file_names, k) = {} => ticker_json.map[k] = pre.ticker_json.map[k]
    /\ \A k \in DOMAIN pre.company_json.map :
         /\ k \in DOMAIN company_json.map
         /\ NameIds(file_names, k) = {} => company_json.map[k] = pre.company_json.map[k]

\* The second successful build on a root of an earlier run has written
\* its index files: a ticker that only the earlier run knew is kept next to
\* one the scan added.
C20_Witness ==
  /\ variant = "edgarl"
  /\ pc = "write_summary"
  /\ builds = 2
  /\ Len(hist) = 2
  /\ "OLD" \in DOMAIN pre.ticker_json.map
  /\ TickerIds(file_names, "OLD") = {}
  /\ "OLD" \in DOMAIN ticker_json.map
  /\ "AMZN" \in DOMAIN ticker_json.map
  /\ "Old Corp" \in DOMAIN company_json.map
====
